---- MODULE Spec2Model ----
(***************************************************************************)
(* Model of the grading engine of the KITS examination ERP (src/app.py):   *)
(* the marks_master table as filled by the faculty and COE upload          *)
(* handlers, the finalization pass of admin_dashboard, and the static      *)
(* method kits_grading_engine.calculate_relative_thresholds.               *)
(*                                                                         *)
(* Numbers.  Marks are integers.  The products 0.40 * total_max,           *)
(* 0.30 * total_max and 0.2 * ese_max and the value mean - 1.5 * std are   *)
(* kept exactly, as records [a, w, den] standing for                       *)
(* (a - 3 * sqrt(w)) / den, and compared without rounding.  For integer    *)
(* marks and maxima up to 400 the double-precision comparisons of the      *)
(* program give the same answers as the exact ones.                        *)
(*                                                                         *)
(* The attendance column is written by the upload handlers and never read  *)
(* by the grading engine; it is left out of the rows.                      *)
(***************************************************************************)
EXTENDS Integers, Sequences, FiniteSets, TLC

VARIABLES
    subjects,       \* the subjects table: code -> subject record
    class_size,     \* number of students on the rolls (ids 1..class_size)
    marks,          \* the marks_master table: <<student_id, subject_code>> -> row
    df,             \* the evaluated frame of the current dashboard run
    master_sheet,   \* the pivoted sheet of the current dashboard run
    status,         \* what the last script run showed to the user
    nsyncs,         \* number of CSV uploads synchronized so far
    thr_marks,      \* argument marks of calculate_relative_thresholds
    thr_total_max,  \* argument total_max
    thr_p,          \* argument p_threshold
    thr_result,     \* value returned by the call
    thr_pc          \* "idle", "ready" (arguments chosen) or "done"

vars == << subjects, class_size, marks, df, master_sheet, status, nsyncs,
           thr_marks, thr_total_max, thr_p, thr_result, thr_pc >>

engineVars == << subjects, class_size, marks, df, master_sheet, status, nsyncs >>

thrVars == << thr_marks, thr_total_max, thr_p, thr_result, thr_pc >>

----------------------------------------------------------------------------
(* Bounds of the exploration. *)

MaxSyncs == 3

SmallClass == 2

CohortSize == 30

MaxPop == 31

(* Constants of the program. *)

PopulationThreshold == 30

GraceGap == 3

MaxGraceSubjects == 2

----------------------------------------------------------------------------
(* Exact numbers: [a, w, den] is (a - 3 * sqrt(w)) / den with den > 0.     *)

Rat(a, den) == [a |-> a, w |-> 0, den |-> den]

Num(n) == Rat(n, 1)

\* x <= y, for x and y of which at most one has w # 0
Leq(x, y) ==
    IF y.w = 0
    THEN LET L == x.a * y.den - y.a * x.den
         IN  L <= 0 \/ L * L <= 9 * x.w * y.den * y.den
    ELSE LET R == y.a * x.den - x.a * y.den
         IN  R >= 0 /\ 9 * y.w * x.den * x.den <= R * R

Lt(x, y) == ~Leq(y, x)

Eq(x, y) == Leq(x, y) /\ Leq(y, x)

\* Python's min(x, y) and max(x, y): the first argument unless the second
\* is strictly smaller (larger)
PyMin(x, y) == IF Lt(y, x) THEN y ELSE x

PyMax(x, y) == IF Lt(x, y) THEN y ELSE x

RECURSIVE SumSeq(_)
SumSeq(s) == IF s = <<>> THEN 0 ELSE Head(s) + SumSeq(Tail(s))

RECURSIVE SumSq(_)
SumSq(s) == IF s = <<>> THEN 0 ELSE Head(s) * Head(s) + SumSq(Tail(s))

----------------------------------------------------------------------------
(* Text of a mark: a sequence of characters.                               *)

Digits == << "0", "1", "2", "3", "4", "5", "6", "7", "8", "9" >>

DigitChars == { Digits[i] : i \in 1..10 }

DigitVal(c) == (CHOOSE i \in 1..10 : Digits[i] = c) - 1

\* str(n) of a non-negative integer
RECURSIVE Str(_)
Str(n) == IF n < 10 THEN << Digits[n + 1] >>
          ELSE Str(n \div 10) \o << Digits[(n % 10) + 1] >>

RECURSIVE DecimalValue(_)
DecimalValue(t) ==
    IF t = <<>> THEN 0
    ELSE 10 * DecimalValue(SubSeq(t, 1, Len(t) - 1)) + DigitVal(t[Len(t)])

\* pd.to_numeric(..., errors='coerce') on one cell: the number, or NaN
ToNumeric(t) ==
    IF t # <<>> /\ \A i \in 1..Len(t) : t[i] \in DigitChars
    THEN [nan |-> FALSE, val |-> DecimalValue(t)]
    ELSE [nan |-> TRUE, val |-> 0]

\* .fillna(0)
FillNa0(x) == IF x.nan THEN 0 ELSE x.val

EseNumeric(t) == FillNa0(ToNumeric(t))

----------------------------------------------------------------------------
(* kits_grading_engine.calculate_relative_thresholds                       *)

\* avg - 1.5 * std of a non-empty population, np.std being the population
\* standard deviation sqrt(n * sum(x^2) - sum(x)^2) / n
RelativeD(ms) ==
    LET n == Len(ms)
        S == SumSeq(ms)
        Q == SumSq(ms)
    IN  [a |-> 2 * S, w |-> n * Q - S * S, den |-> 2 * n]

\* variant: the lower clamp at 30% is forgotten
CalculateRelativeThresholdsNoFloor(ms, total_max, p_threshold) ==
    IF Len(ms) < PopulationThreshold
    THEN Rat(4 * total_max, 10)
    ELSE PyMin(RelativeD(ms), Num(p_threshold))

CalculateRelativeThresholds(ms, total_max, p_threshold) ==
    IF Len(ms) < PopulationThreshold
    THEN Rat(4 * total_max, 10)
    ELSE PyMax(Rat(3 * total_max, 10), PyMin(RelativeD(ms), Num(p_threshold)))

----------------------------------------------------------------------------
(* The tables.                                                             *)

Subject(type, cie, ise, ese) ==
    [course_type |-> type, cie_max |-> cie, ise_max |-> ise, ese_max |-> ese,
     total_max |-> cie + ise + ese]

\* three subjects of a small class
SmallSubjects ==
    [c \in {"TH1", "TH2", "PR1"} |->
        CASE c = "TH1" -> Subject("Theory", 5, 5, 10)
          [] c = "TH2" -> Subject("Theory", 5, 10, 10)
          [] c = "PR1" -> Subject("Practical", 0, 10, 10)]

\* one subject taken by a whole cohort
CohortSubjects == [c \in {"TH1"} |-> Subject("Theory", 5, 5, 10)]

NoRows == [k \in {} |-> 0]

\* the student ids one uploaded CSV may list: all but the last student,
\* the last student alone, or the whole class
Rosters(n) == { 1..(n - 1), {n}, 1..n } \ { {} }

\* the text of the marks cell of an uploaded CSV (every row the same).
\* The cells of a faculty CSV are numbers: on a text cell the comparison of
\* check_marks_limit raises before anything is stored, and the tables stay
\* as they are.
FacultyCells == { <<"4">>, <<"7">>, <<"1", "1">> }

CoeCells == { <<"7">>, <<"A", "B">>, <<"X", "Y">> }

\* the row INSERT creates for a new (student_id, subject_code): the columns
\* the statement does not name take the column default
NewRow == [cie_marks |-> 0, ise_marks |-> 0, ese_marks |-> <<"0">>]

\* INSERT ... ON CONFLICT (student_id, subject_code) DO UPDATE SET component:
\* the row of key afterwards
Upsert(m, key, component, val) ==
    LET old == IF key \in DOMAIN m THEN m[key] ELSE NewRow
    IN  [old EXCEPT ![component] = val]

\* str(row['marks']) of a cell read by pd.read_csv: a numeric cell is
\* parsed and printed again, any other cell is kept as its text
StrOfCell(t) == IF ToNumeric(t).nan THEN t ELSE Str(ToNumeric(t).val)

\* sync_to_supabase: one upsert per CSV row, then commit; cell is the text
\* of the marks cell
SyncToSupabase(m, ids, sub_code, component, cell, is_ese) ==
    LET val == IF is_ese THEN StrOfCell(cell) ELSE ToNumeric(cell).val
    IN  [k \in DOMAIN m \cup { <<i, sub_code>> : i \in ids } |->
            IF k[2] = sub_code /\ k[1] \in ids
            THEN Upsert(m, k, component, val)
            ELSE m[k]]

\* check_marks_limit(df, 'marks', max_val) is not empty
ExceedsLimit(n, max_val) == n > max_val

----------------------------------------------------------------------------
(* admin_dashboard, "Calculate SGPA & Generate Master Sheet"               *)

\* 1. pd.merge(marks, subjects, left_on='subject_code', right_on='code')
\*    with ese_numeric and total_marks
Prepare(m, subs) ==
    [k \in { j \in DOMAIN m : j[2] \in DOMAIN subs } |->
        LET r == m[k]
            e == EseNumeric(r.ese_marks)
        IN  [student_id |-> k[1], code |-> k[2],
             cie_marks |-> r.cie_marks, ise_marks |-> r.ise_marks,
             ese_marks |-> r.ese_marks,
             ese_max |-> subs[k[2]].ese_max,
             total_max |-> subs[k[2]].total_max,
             ese_numeric |-> e,
             total_marks |-> r.cie_marks + r.ise_marks + e]]

\* variant: the hurdle is taken on the total instead of the ESE mark
EseHurdlePassedOnTotal(row) == Leq(Rat(2 * row.ese_max, 10), Num(row.total_marks))

\* 2. ese_numeric >= 0.2 * ese_max
EseHurdlePassed(row) == Leq(Rat(2 * row.ese_max, 10), Num(row.ese_numeric))

\*    0.40 * total_max
PassingBoundary(row) == Rat(4 * row.total_max, 10)

\* variant: .any() instead of .all()
EligibleForGraceAny(f, sid) ==
    \E k \in DOMAIN f : f[k].student_id = sid /\ f[k].ese_hurdle_passed

\* 3. groupby('student_id')['ese_hurdle_passed'].all()
EligibleForGrace(f, sid) ==
    \A k \in DOMAIN f : f[k].student_id = sid => f[k].ese_hurdle_passed

\* variant: a shortfall of up to 5 marks is taken for a grace candidate
ComputeFinalGradeWideGap(row) ==
    IF ~row.ese_hurdle_passed THEN "F"
    ELSE IF Leq(row.passing_boundary, Num(row.total_marks)) THEN "D"
    ELSE IF row.eligible_for_grace
            /\ Leq(row.passing_boundary, Num(row.total_marks + GraceGap + 2))
         THEN "Grace_Candidate"
    ELSE "F"

\* 4. compute_final_grade(row)
ComputeFinalGrade(row) ==
    IF ~row.ese_hurdle_passed THEN "F"
    ELSE IF Leq(row.passing_boundary, Num(row.total_marks)) THEN "D"
    ELSE IF row.eligible_for_grace
            /\ Leq(row.passing_boundary, Num(row.total_marks + GraceGap))
         THEN "Grace_Candidate"
    ELSE "F"

\* 5. size of the student's group of Grace_Candidate rows, 0 without one
NumGraceNeeded(f, sid) ==
    Cardinality({ k \in DOMAIN f : f[k].student_id = sid
                                   /\ f[k].temp_grade = "Grace_Candidate" })

\* variant: grace is awarded up to three subjects
FinalizeGradeOffByOne(row) ==
    IF row.temp_grade = "Grace_Candidate"
    THEN IF row.num_grace_needed <= MaxGraceSubjects + 1 THEN "D*" ELSE "F"
    ELSE row.temp_grade

\*    finalize_grade(row)
FinalizeGrade(row) ==
    IF row.temp_grade = "Grace_Candidate"
    THEN IF row.num_grace_needed <= MaxGraceSubjects THEN "D*" ELSE "F"
    ELSE row.temp_grade

\* the frame after step 5
Evaluate(m, subs) ==
    LET f1 == Prepare(m, subs)
        f2 == [k \in DOMAIN f1 |->
                 [ese_hurdle_passed |-> EseHurdlePassed(f1[k]),
                  passing_boundary |-> PassingBoundary(f1[k])] @@ f1[k]]
        f3 == [k \in DOMAIN f2 |->
                 [eligible_for_grace |-> EligibleForGrace(f2, f2[k].student_id)]
                 @@ f2[k]]
        f4 == [k \in DOMAIN f3 |->
                 [temp_grade |-> ComputeFinalGrade(f3[k])] @@ f3[k]]
        f5 == [k \in DOMAIN f4 |->
                 [num_grace_needed |-> NumGraceNeeded(f4, f4[k].student_id)]
                 @@ f4[k]]
    IN  [k \in DOMAIN f5 |-> [final_grade |-> FinalizeGrade(f5[k])] @@ f5[k]]

\* 6. df.pivot(index='student_id', columns='code', values='final_grade'):
\*    a cell without a row is NaN
Pivot(f) ==
    [sid \in { f[k].student_id : k \in DOMAIN f } |->
        [c \in { f[k].code : k \in DOMAIN f } |->
            IF <<sid, c>> \in DOMAIN f THEN f[<<sid, c>>].final_grade
            ELSE "NaN"]]

----------------------------------------------------------------------------
(* The handlers.  Every run of the script starts from the tables alone:    *)
(* the frame and the sheet of an earlier run are gone.                     *)

\* faculty_interface, first column: CIE of a theory subject, ISE of a
\* practical one
FacultyUploadCol1(code, ids, cell) ==
    LET sub_info == subjects[code]
        is_theory == sub_info.course_type = "Theory"
        max1 == IF is_theory THEN sub_info.cie_max ELSE sub_info.ise_max
        db_col1 == IF is_theory THEN "cie_marks" ELSE "ise_marks"
        parsed == ToNumeric(cell)
    IN  /\ ~ExceedsLimit(parsed.val, max1) => nsyncs < MaxSyncs
        /\ IF ExceedsLimit(parsed.val, max1)
           THEN /\ status' = "validation_error"
                /\ UNCHANGED << marks, nsyncs >>
           ELSE /\ marks' = SyncToSupabase(marks, ids, code, db_col1, cell, FALSE)
                /\ nsyncs' = nsyncs + 1
                /\ status' = "synced"
        /\ df' = NoRows
        /\ master_sheet' = NoRows
        /\ UNCHANGED << subjects, class_size >>
        /\ UNCHANGED thrVars

\* faculty_interface, second column: ISE of a theory subject, ESE of a
\* practical one
FacultyUploadCol2(code, ids, cell) ==
    LET sub_info == subjects[code]
        is_theory == sub_info.course_type = "Theory"
        max2 == IF is_theory THEN sub_info.ise_max ELSE sub_info.ese_max
        db_col2 == IF is_theory THEN "ise_marks" ELSE "ese_marks"
        parsed == ToNumeric(cell)
    IN  /\ ~ExceedsLimit(parsed.val, max2) => nsyncs < MaxSyncs
        /\ IF ExceedsLimit(parsed.val, max2)
           THEN /\ status' = "validation_error"
                /\ UNCHANGED << marks, nsyncs >>
           ELSE /\ marks' = SyncToSupabase(marks, ids, code, db_col2, cell,
                                           ~is_theory)
                /\ nsyncs' = nsyncs + 1
                /\ status' = "synced"
        /\ df' = NoRows
        /\ master_sheet' = NoRows
        /\ UNCHANGED << subjects, class_size >>
        /\ UNCHANGED thrVars

\* coe_interface: ESE of a theory subject, synchronized without a check
CoeUpload(code, ids, cell) ==
    /\ subjects[code].course_type = "Theory"
    /\ nsyncs < MaxSyncs
    /\ marks' = SyncToSupabase(marks, ids, code, "ese_marks", cell, TRUE)
    /\ nsyncs' = nsyncs + 1
    /\ status' = "synced"
    /\ df' = NoRows
    /\ master_sheet' = NoRows
    /\ UNCHANGED << subjects, class_size >>
    /\ UNCHANGED thrVars

\* variant: the coerced ESE marks are written back to marks_master
AdminDashboardWritesBack ==
    /\ IF marks = NoRows
       THEN /\ status' = "awaiting"
            /\ df' = NoRows
            /\ master_sheet' = NoRows
       ELSE /\ df' = Evaluate(marks, subjects)
            /\ master_sheet' = Pivot(df')
            /\ status' = "done"
    /\ marks' = [k \in DOMAIN marks |->
                    [marks[k] EXCEPT !.ese_marks = Str(EseNumeric(@))]]
    /\ UNCHANGED << subjects, class_size, nsyncs >>
    /\ UNCHANGED thrVars

\* admin_dashboard with the finalization button pressed
AdminDashboard ==
    /\ IF marks = NoRows
       THEN /\ status' = "awaiting"
            /\ df' = NoRows
            /\ master_sheet' = NoRows
       ELSE /\ df' = Evaluate(marks, subjects)
            /\ master_sheet' = Pivot(df')
            /\ status' = "done"
    /\ UNCHANGED << subjects, class_size, marks, nsyncs >>
    /\ UNCHANGED thrVars

Init ==
    /\ \/ subjects = SmallSubjects /\ class_size = SmallClass
       \/ subjects = CohortSubjects /\ class_size = CohortSize
    /\ marks = NoRows
    /\ df = NoRows
    /\ master_sheet = NoRows
    /\ status = "start"
    /\ nsyncs = 0
    /\ thr_marks = <<>>
    /\ thr_total_max = 0
    /\ thr_p = 0
    /\ thr_result = Num(0)
    /\ thr_pc = "idle"

Next ==
    \/ \E code \in DOMAIN subjects, ids \in Rosters(class_size),
          cell \in FacultyCells : FacultyUploadCol1(code, ids, cell)
    \/ \E code \in DOMAIN subjects, ids \in Rosters(class_size),
          cell \in FacultyCells : FacultyUploadCol2(code, ids, cell)
    \/ \E code \in DOMAIN subjects, ids \in Rosters(class_size),
          cell \in CoeCells : CoeUpload(code, ids, cell)
    \/ AdminDashboard

Spec == Init /\ [][Next]_vars

----------------------------------------------------------------------------
(* Calls of calculate_relative_thresholds on populations of two blocks.    *)

TwoBlock(n, k, a, b) == [i \in 1..n |-> IF i <= k THEN a ELSE b]

ThrMarkVals == {0, 8, 20}

ThrTotalMaxes == {20, 25}

ThrPThresholds == {4, 6, 9, 12}

ThrPopulations ==
    UNION { { TwoBlock(n, k, a, b) : k \in 0..n, a \in ThrMarkVals,
                                     b \in ThrMarkVals } : n \in 0..MaxPop }

InitThr ==
    /\ subjects = CohortSubjects
    /\ class_size = SmallClass
    /\ marks = NoRows
    /\ df = NoRows
    /\ master_sheet = NoRows
    /\ status = "start"
    /\ nsyncs = 0
    /\ thr_marks \in ThrPopulations
    /\ thr_total_max \in ThrTotalMaxes
    /\ thr_p \in ThrPThresholds
    /\ thr_result = Num(0)
    /\ thr_pc = "ready"

CallCalculateRelativeThresholds ==
    /\ thr_pc = "ready"
    /\ thr_result' = CalculateRelativeThresholds(thr_marks, thr_total_max, thr_p)
    /\ thr_pc' = "done"
    /\ UNCHANGED << thr_marks, thr_total_max, thr_p >>
    /\ UNCHANGED engineVars

NextThr == CallCalculateRelativeThresholds

SpecThr == InitThr /\ [][NextThr]_vars

----------------------------------------------------------------------------
(* Properties of the finalization pass.                                    *)

AB == << "A", "B" >>

FinalGrades == { "A+", "A", "B", "C", "D", "D*", "F" }

RowsOf(sid) == { k \in DOMAIN df : k[1] = sid }

CandidatesOf(sid) == { k \in RowsOf(sid) : df[k].temp_grade = "Grace_Candidate" }

\* total_marks < 0.40 * total_max and the shortfall is at most 3 marks
NarrowMiss(r) ==
    /\ 10 * r.total_marks < 4 * r.total_max
    /\ 4 * r.total_max - 10 * r.total_marks <= 30

\* C1: every Grace_Candidate row of a student becomes D* exactly when the
\* student has one or two candidate rows, and F when the student has more
\* than two; so the candidate rows of one student all get the same grade.
C1_GraceAllOrNothing ==
    \A k \in DOMAIN df :
        df[k].temp_grade = "Grace_Candidate" =>
            LET n == Cardinality(CandidatesOf(k[1]))
            IN  /\ (df[k].final_grade = "D*") <=> (1 <= n /\ n <= 2)
                /\ n > 2 => df[k].final_grade = "F"
                /\ \A j \in CandidatesOf(k[1]) :
                       df[j].final_grade = df[k].final_grade

C1_Witness ==
    \E k \in DOMAIN df :
        /\ Cardinality(CandidatesOf(k[1])) = 3
        /\ \A j \in CandidatesOf(k[1]) : df[j].final_grade = "F"

\* C2: eligible_for_grace of a row is the conjunction of ese_hurdle_passed
\* over all rows of the row's student; a student with a failed hurdle in
\* some subject has no Grace_Candidate and no D* in any subject.
C2_EligibilityIsAllHurdles ==
    \A k \in DOMAIN df :
        LET allPassed == \A j \in RowsOf(k[1]) : df[j].ese_hurdle_passed
        IN  /\ df[k].eligible_for_grace = allPassed
            /\ ~allPassed =>
                   \A j \in RowsOf(k[1]) :
                       /\ df[j].temp_grade # "Grace_Candidate"
                       /\ df[j].final_grade # "D*"

C2_Witness ==
    \E k \in DOMAIN df :
        /\ df[k].ese_hurdle_passed
        /\ NarrowMiss(df[k])
        /\ ~df[k].eligible_for_grace
        /\ df[k].final_grade = "F"

\* C3: ese_hurdle_passed of a row holds exactly when the coerced ESE mark
\* of the row (0 for 'AB', the number for a numeric text) is at least 20%
\* of ese_max, and a row that failed the hurdle is graded F whatever its
\* total is.
C3_HurdlePerRow ==
    \A k \in DOMAIN df :
        LET r == df[k]
        IN  /\ r.ese_marks = AB => r.ese_numeric = 0
            /\ ~ToNumeric(r.ese_marks).nan => Str(r.ese_numeric) = r.ese_marks
            /\ r.ese_hurdle_passed <=> (5 * r.ese_numeric >= r.ese_max)
            /\ ~r.ese_hurdle_passed => r.final_grade = "F"

C3_Witness ==
    \E k \in DOMAIN df :
        /\ df[k].ese_marks = AB
        /\ ~df[k].ese_hurdle_passed
        /\ 10 * df[k].total_marks >= 4 * df[k].total_max
        /\ df[k].final_grade = "F"

\* the ordered letter table, as percentages of total_max
Band(r) ==
    IF 10 * r.total_marks >= 9 * r.total_max THEN "A+"
    ELSE IF 10 * r.total_marks >= 8 * r.total_max THEN "A"
    ELSE IF 10 * r.total_marks >= 7 * r.total_max THEN "B"
    ELSE IF 10 * r.total_marks >= 6 * r.total_max THEN "C"
    ELSE "D"

\* C4: a row that passed the hurdle and reached the passing boundary gets
\* the first matching band of the letter table (A+, A, B, C, D).
C4_FullBandTable ==
    \A k \in DOMAIN df :
        (df[k].ese_hurdle_passed
         /\ Leq(df[k].passing_boundary, Num(df[k].total_marks)))
            => df[k].final_grade = Band(df[k])

\* C6: no student has more than two D* cells in the master sheet, and a D*
\* cell belongs to a row that passed the hurdle and missed the boundary by
\* at most 3 marks.
C6_GraceBounded ==
    \A sid \in DOMAIN master_sheet :
        /\ Cardinality({ c \in DOMAIN master_sheet[sid] :
                            master_sheet[sid][c] = "D*" }) <= 2
        /\ \A c \in DOMAIN master_sheet[sid] :
               master_sheet[sid][c] = "D*" =>
                   /\ <<sid, c>> \in DOMAIN df
                   /\ 5 * df[<<sid, c>>].ese_numeric >= df[<<sid, c>>].ese_max
                   /\ NarrowMiss(df[<<sid, c>>])

C6_Witness ==
    \E sid \in DOMAIN master_sheet :
        Cardinality({ c \in DOMAIN master_sheet[sid] :
                         master_sheet[sid][c] = "D*" }) = 2

C8_FullyPopulatedOrError ==
    status = "done" =>
        \A sid \in DOMAIN master_sheet :
            \A c \in DOMAIN master_sheet[sid] :
                master_sheet[sid][c] \in FinalGrades

\* C9: no finished run has graded a row whose ese_marks is neither a
\* number nor the absence sentinel 'AB'.
C9_GarbageRejected ==
    status = "done" =>
        \A k \in DOMAIN df :
            df[k].ese_marks = AB \/ ~ToNumeric(df[k].ese_marks).nan

RECURSIVE TotalsOf(_)
TotalsOf(keys) ==
    IF keys = {} THEN <<>>
    ELSE LET k == CHOOSE x \in keys : TRUE
         IN  << df[k].total_marks >> \o TotalsOf(keys \ {k})

\* C10: the passing boundary of every subject in a finished run is the
\* value calculate_relative_thresholds gives for the totals of the subject,
\* for some upper reference between 0 and total_max.
C10_BoundaryFromCalculator ==
    status = "done" =>
        \A c \in { k[2] : k \in DOMAIN df } :
            LET keys == { k \in DOMAIN df : k[2] = c }
            IN  \E p \in 0..subjects[c].total_max :
                    \A k \in keys :
                        Eq(df[k].passing_boundary,
                           CalculateRelativeThresholds(TotalsOf(keys),
                               subjects[c].total_max, p))

----------------------------------------------------------------------------
(* Properties of calculate_relative_thresholds.                            *)

ThrFloor == Rat(3 * thr_total_max, 10)

\* C5 as stated: below 30 marks the result is 0.40 * total_max; from 30
\* marks on the result lies between 0.30 * total_max and p_threshold for
\* every total_max and p_threshold.
C5_ClampedForEveryP ==
    thr_pc = "done" =>
        IF Len(thr_marks) < 30
        THEN Eq(thr_result, Rat(4 * thr_total_max, 10))
        ELSE Leq(ThrFloor, thr_result) /\ Leq(thr_result, Num(thr_p))

\* C5 amended: below 30 marks the result is 0.40 * total_max; from 30
\* marks on the result is at least 0.30 * total_max, it is at most
\* p_threshold when p_threshold is at least 0.30 * total_max, and it is
\* 0.30 * total_max when p_threshold is smaller than that.
C5_ClampedWhenOrdered ==
    thr_pc = "done" =>
        IF Len(thr_marks) < 30
        THEN Eq(thr_result, Rat(4 * thr_total_max, 10))
        ELSE /\ Leq(ThrFloor, thr_result)
             /\ Leq(ThrFloor, Num(thr_p)) => Leq(thr_result, Num(thr_p))
             /\ Lt(Num(thr_p), ThrFloor) => Eq(thr_result, ThrFloor)

C5_Witness ==
    /\ thr_pc = "done"
    /\ Len(thr_marks) >= 30
    /\ Lt(ThrFloor, thr_result)
    /\ Lt(thr_result, Num(thr_p))

====
